---- MODULE Spec2Model ----
(***************************************************************************)
(* State-machine model of expand.py: the resumable batch driver (main),   *)
(* the progress store (load_progress / save_progress), the remote         *)
(* request/poll/result client (generate_one) and the output formatter     *)
(* (format_output).                                                        *)
(*                                                                         *)
(* Text is modelled as a sequence of tokens: an ordinary character "a",   *)
(* the whitespace characters SP (space) and LF (newline), and the stop    *)
(* marker "<stop>" as one token.                                           *)
(***************************************************************************)
EXTENDS Integers, Sequences, FiniteSets, TLC

\* ------------------------------------------------------------- bounds
MaxSentences == 4
MaxBatchSize == 3
MaxN == 2
MaxStoredIdx == 1
MaxPolls == 2
MaxTextLen == 4
MaxTwoSentences == 2

\* Driver instances. Under Spec only driver 1 runs; driver 2 stays "off".
Procs == {1, 2}

\* ------------------------------------------------------------- text
SP == "SP"
LF == "LF"
STOP == "<stop>"
StopMarker == <<STOP>>
Whitespace == {SP, LF}

Min(a, b) == IF a < b THEN a ELSE b
Max(a, b) == IF a > b THEN a ELSE b

RECURSIVE LStrip(_)
LStrip(s) ==
    IF s # <<>> /\ Head(s) \in Whitespace THEN LStrip(Tail(s)) ELSE s

RECURSIVE RStrip(_)
RStrip(s) ==
    IF s # <<>> /\ s[Len(s)] \in Whitespace
    THEN RStrip(SubSeq(s, 1, Len(s) - 1))
    ELSE s

\* str.strip()
Strip(s) == RStrip(LStrip(s))

\* str.endswith(suffix)
EndsWith(s, suffix) ==
    /\ Len(s) >= Len(suffix)
    /\ SubSeq(s, Len(s) - Len(suffix) + 1, Len(s)) = suffix

\* position of the first LF of s, 0 when there is none
FirstLF(s) ==
    IF \E k \in 1..Len(s) : s[k] = LF
    THEN CHOOSE k \in 1..Len(s) : s[k] = LF /\ \A j \in 1..(k - 1) : s[j] # LF
    ELSE 0

\* str.splitlines(): no trailing empty line after a final newline
RECURSIVE SplitLines(_)
SplitLines(s) ==
    IF s = <<>> THEN <<>>
    ELSE LET k == FirstLF(s)
         IN  IF k = 0 THEN <<s>>
             ELSE <<SubSeq(s, 1, k - 1)>> \o SplitLines(SubSeq(s, k + 1, Len(s)))

\* "\n".join(lines)
RECURSIVE JoinLines(_)
JoinLines(lines) ==
    IF lines = <<>> THEN <<>>
    ELSE IF Len(lines) = 1 THEN lines[1]
    ELSE lines[1] \o <<LF>> \o JoinLines(Tail(lines))

\* the loop body without the endswith test of line 146: the marker is always
\* appended
FormatLineAlways(line) ==
    LET l == Strip(line)
    IN  IF l = <<>> THEN <<>> ELSE <<l \o StopMarker>>

\* the body of format_output's loop for one line: <<>> when the line is dropped
FormatLine(line) ==
    LET l == Strip(line)
    IN  IF l = <<>> THEN <<>>
        ELSE IF EndsWith(l, StopMarker) THEN <<l>>
        ELSE <<l \o StopMarker>>

RECURSIVE FormatLines(_)
FormatLines(lines) ==
    IF lines = <<>> THEN <<>>
    ELSE FormatLine(Head(lines)) \o FormatLines(Tail(lines))

format_output(raw) == JoinLines(FormatLines(SplitLines(raw)))

\* str.count("\n")
CountLF(s) == Cardinality({k \in 1..Len(s) : s[k] = LF})

\* ------------------------------------------------------------- JSON values
\* An element of a stored JSON list: an integer, a string, or a nested list
\* (the obsolete [chunk, style] pair).
IntElem(v) == [t |-> "int", v |-> v]
StrElem == [t |-> "str", v |-> 0]
PairElem == [t |-> "pair", v |-> 0]

\* The progress file: absent, not parseable as JSON (empty or cut short), or
\* a JSON value. truthy is Python's truth value of the decoded value.
Absent == [kind |-> "absent", truthy |-> FALSE, items |-> <<>>]
Corrupt == [kind |-> "corrupt", truthy |-> FALSE, items |-> <<>>]
JList(items) == [kind |-> "list", truthy |-> items # <<>>, items |-> items]
JDict(nonempty) == [kind |-> "dict", truthy |-> nonempty, items |-> <<>>]
JNumber(nonzero) == [kind |-> "number", truthy |-> nonzero, items |-> <<>>]
JString(nonempty) == [kind |-> "string", truthy |-> nonempty, items |-> <<>>]
JNull == [kind |-> "null", truthy |-> FALSE, items |-> <<>>]

Range(f) == {f[k] : k \in DOMAIN f}

Returned(v) == [raised |-> FALSE, value |-> v]
Raised == [raised |-> TRUE, value |-> {}]

\* load_progress() without the isinstance test of line 81: every non-empty
\* stored value goes to set(data)
load_progress_unchecked(file) ==
    IF file.kind = "absent" THEN Returned({})
    ELSE IF file.kind = "corrupt" THEN Raised
    ELSE IF ~file.truthy THEN Returned({})
    ELSE IF file.kind = "number" THEN Raised
    ELSE IF file.kind \in {"dict", "string"} THEN Returned({StrElem})
    ELSE IF PairElem \in Range(file.items) THEN Raised
    ELSE Returned(Range(file.items))

\* load_progress(): the set read from the progress file, or an exception
load_progress(file) ==
    IF file.kind = "absent" THEN Returned({})
    ELSE IF file.kind = "corrupt" THEN Raised            \* json.load
    ELSE IF ~file.truthy THEN Returned({})               \* not data
    ELSE IF file.kind \in {"dict", "number"} THEN Raised \* data[0]
    ELSE IF file.kind = "string" THEN Returned({})       \* data[0] is a str
    ELSE IF file.items[1].t # "int" THEN Returned({})
    ELSE IF PairElem \in Range(file.items) THEN Raised   \* set(data): unhashable
    ELSE Returned(Range(file.items))

\* sorted(done) raises when done mixes integers and strings
SortedRaises(done) == \E e \in done : e.t # "int"

RECURSIVE SortedInts(_)
SortedInts(S) ==
    IF S = {} THEN <<>>
    ELSE LET m == CHOOSE x \in S : \A y \in S : x <= y
         IN  <<m>> \o SortedInts(S \ {m})

\* what save_progress(done) leaves in the file once json.dump and close succeed
SavedFile(done) == JList([k \in 1..Cardinality(done) |->
                            IntElem(SortedInts({e.v : e \in done})[k])])

\* ------------------------------------------------------------- batches
\* range(start, stop, step) for step # 0
RECURSIVE PyRange(_, _, _)
PyRange(start, stop, step) ==
    IF (step > 0 /\ start < stop) \/ (step < 0 /\ start > stop)
    THEN <<start>> \o PyRange(start + step, stop, step)
    ELSE <<>>

\* s[lo:hi - 1]
SliceShort(s, lo, hi) == SubSeq(s, lo + 1, Min(hi - 1, Len(s)))

\* s[lo:hi] for 0 <= lo <= hi
Slice(s, lo, hi) == SubSeq(s, lo + 1, Min(hi, Len(s)))

\* main, "Split into batches"
Batches(sents, size) ==
    LET starts == PyRange(0, Len(sents), size)
    IN  [k \in 1..Len(starts) |-> Slice(sents, starts[k], starts[k] + size)]

\* pending = [i for i in range(len(batches)) if i not in done]
RECURSIVE PendingFrom(_, _, _)
PendingFrom(i, count, done) ==
    IF i >= count THEN <<>>
    ELSE (IF IntElem(i) \in done THEN <<>> ELSE <<i>>)
         \o PendingFrom(i + 1, count, done)

Pending(bs, done) == PendingFrom(0, Len(bs), done)

\* pending[: n + 1]
ToDoOneMore(pending, n) == SubSeq(pending, 1, Min(n + 1, Len(pending)))

\* pending[: n]
ToDo(pending, n) ==
    IF n >= 0 THEN SubSeq(pending, 1, Min(n, Len(pending)))
    ELSE SubSeq(pending, 1, Max(Len(pending) + n, 0))

\* ------------------------------------------------------------- inputs
\* -n: negative, 0 (dry-run) and positive values
NValues == {0 - 1} \cup (0..MaxN)
\* --batch-size: negative, 0 and positive values
BatchSizes == {0 - 1} \cup (0..MaxBatchSize)

\* progress files in the current format: a sorted list of integers
CurrentStores == {SavedFile({IntElem(v) : v \in S}) : S \in SUBSET ((0 - 1)..MaxStoredIdx)}

\* other contents a progress file can have when a run starts
OtherStores ==
    { Absent, Corrupt,
      JList(<<PairElem>>), JList(<<StrElem>>),
      JList(<<IntElem(0), StrElem>>), JList(<<IntElem(0), PairElem>>),
      JDict(FALSE), JDict(TRUE), JNumber(FALSE), JNumber(TRUE),
      JString(TRUE), JNull }

InitialStores == CurrentStores \cup OtherStores

\* texts the service can return as a result's output
ServiceTexts ==
    { <<SP, LF>>,
      <<"a", LF, LF, SP, "a", STOP, LF>>,
      <<"a", STOP, STOP>> }

\* status values of a poll; "None" is a payload without a status field
Terminal == {"COMPLETED", "FAILED", "CANCELLED"}
StatusValues == Terminal \cup {"IN_QUEUE", "IN_PROGRESS", "None"}

\* result payloads: the error field is absent, present with a false value
\* (null, "", 0) or present with a true value; the output field may be missing
NoResult == [error |-> "none", has_output |-> FALSE, output |-> <<>>]
ResultPayloads ==
    {[error |-> e, has_output |-> TRUE, output |-> t] :
        e \in {"absent", "falsy", "truthy"}, t \in ServiceTexts}
    \cup {[error |-> e, has_output |-> FALSE, output |-> <<>>] :
            e \in {"absent", "falsy", "truthy"}}

\* ------------------------------------------------------------- state
VARIABLES
    args,          \* parsed command line: n, batch_size, has_key (FAL_KEY in ~/.env)
    sentences,     \* load_sentences(): the normalised corpus
    progressFile,  \* PROGRESS_FILE
    outputFile,    \* what has been appended to OUTPUT_FILE
    drv,           \* per driver instance: position and locals of main/generate_one
    env,           \* what the service and the storage may do: "any" or "quiet"
    fmt            \* a text and format_output applied to it once and twice

vars == <<args, sentences, progressFile, outputFile, drv, env, fmt>>

\* In a "quiet" environment every call and every write succeeds, every job
\* completes at its first poll and every result is the same text.
Faulty == env = "any"

Stopped == {"done", "exit1", "crashed", "killed", "off"}

InitDrv ==
    [ pc |-> "start", ready |-> FALSE,
      batches |-> <<>>, done |-> {}, loaded |-> {}, pending |-> <<>>,
      to_do |-> <<>>, pos |-> 0,
      state |-> "None", polls |-> 0, reply |-> "none", fetched |-> FALSE,
      result |-> NoResult, raw |-> <<>>, formatted |-> <<>>,
      calls |-> {}, attempted |-> <<>>, appended |-> <<>>, records |-> <<>>,
      wrote |-> FALSE,
      log |-> <<>>, remaining |-> 0 - 1 ]

OffDrv == [InitDrv EXCEPT !.pc = "off"]

InitEnv ==
    /\ args \in [n : NValues, batch_size : BatchSizes, has_key : BOOLEAN]
    /\ sentences \in {[k \in 1..m |-> k] : m \in 0..MaxSentences}
    /\ progressFile \in InitialStores
    /\ outputFile = <<>>

\* no text is being formatted
FmtIdle == [pc |-> "idle", text |-> <<>>, once |-> <<>>, twice |-> <<>>]

Init ==
    /\ InitEnv
    /\ env = "any"
    /\ fmt = FmtIdle
    /\ drv = [p \in Procs |-> IF p = 1 THEN InitDrv ELSE OffDrv]

\* ------------------------------------------------------------- main
\* lines 162-173: load the corpus and the progress, split, select pending
Startup(p) ==
    /\ drv[p].pc = "start"
    /\ LET lp == load_progress(progressFile)
           bs == Batches(sentences, args.batch_size)
       IN  drv' = [drv EXCEPT ![p] =
                IF lp.raised \/ args.batch_size = 0
                THEN [@ EXCEPT !.pc = "crashed"]
                ELSE [@ EXCEPT !.pc = "loaded",
                               !.ready = TRUE,
                               !.batches = bs,
                               !.done = lp.value,
                               !.loaded = lp.value,
                               !.pending = Pending(bs, lp.value)]]
    /\ UNCHANGED <<env, fmt, args, sentences, progressFile, outputFile>>

\* line 175 left out: n == 0 is handled like any other n
DryRunNever(a) == FALSE

\* line 175: if args.n == 0
DryRunRequested(a) == a.n = 0

\* lines 175-180: n == 0 prints the preview and returns
DryRun(p) ==
    /\ drv[p].pc = "loaded"
    /\ DryRunRequested(args)
    /\ drv' = [drv EXCEPT ![p].pc = "done"]
    /\ UNCHANGED <<env, fmt, args, sentences, progressFile, outputFile>>

\* the position after batch number pos of to_do: the next batch or the summary
LoopPc(d, pos) == IF pos > Len(d.to_do) THEN "summary" ELSE "submit"

\* lines 183-185 left out: the run goes on without a credential
CredentialUnchecked(a) == TRUE

\* lines 182-183: api_key = load_key("FAL_KEY"); if not api_key
HasCredential(a) == a.has_key

\* lines 182-188: the credential, then to_do = pending[: n]
SelectToDo(p) ==
    /\ drv[p].pc = "loaded"
    /\ ~DryRunRequested(args)
    /\ drv' = [drv EXCEPT ![p] =
            IF ~HasCredential(args)
            THEN [@ EXCEPT !.pc = "exit1"]
            ELSE LET td == ToDo(@.pending, args.n)
                     d == [@ EXCEPT !.to_do = td, !.pos = 1]
                 IN  [d EXCEPT !.pc = LoopPc(d, 1)]]
    /\ UNCHANGED <<env, fmt, args, sentences, progressFile, outputFile>>

\* the loop counter i of enumerate(to_do, 1) taken for the batch index
batch_idx_enum(d) == d.pos

\* line 190: batch_idx of the current iteration
batch_idx(d) == d.to_do[d.pos]

\* one line of the run's report: "OK (lines)" or "FAILED"
Report(d, ok, lines, cause) ==
    [idx |-> batch_idx(d), ok |-> ok, lines |-> lines, cause |-> cause]

\* the end of one loop iteration: report it, forget the locals, go on
EndBatch(d, ok, lines, cause) ==
    [d EXCEPT !.log = Append(@, Report(d, ok, lines, cause)),
              !.pos = @ + 1,
              !.pc = LoopPc(d, d.pos + 1),
              !.raw = <<>>, !.formatted = <<>>]

\* line 206 with a "break" after the report: the run stops at the first failure
RemoteFailedAbort(d) == [EndBatch(d, FALSE, 0, "remote") EXCEPT !.pc = "summary"]

\* line 206: except Exception, from a call of generate_one
RemoteFailed(d) == EndBatch(d, FALSE, 0, "remote")

\* line 206 with done.add(batch_idx) moved before the write of line 201
StorageFailedMarked(d, cause) ==
    EndBatch([d EXCEPT !.done = @ \cup {IntElem(d.to_do[d.pos])}], FALSE, 0, cause)

\* line 206: except Exception, from the append or the save
StorageFailed(d, cause) == EndBatch(d, FALSE, 0, cause)

\* ------------------------------------------------------------- generate_one
\* the statuses a poll can return and the payloads a fetch can return
Statuses == IF Faulty THEN StatusValues ELSE {"COMPLETED"}
Results ==
    IF Faulty THEN ResultPayloads
    ELSE {[error |-> "absent", has_output |-> TRUE, output |-> <<"a", LF>>]}

\* lines 107-119: submit the job; a transport error raises
Submit(p) ==
    /\ drv[p].pc = "submit"
    /\ LET d == [drv[p] EXCEPT !.calls = @ \cup {"submit"},
                               !.attempted = Append(@, batch_idx(drv[p])),
                               !.state = "None", !.polls = 0,
                               !.fetched = FALSE, !.result = NoResult]
       IN  \/ drv' = [drv EXCEPT ![p] = [d EXCEPT !.pc = "poll", !.reply = "ok"]]
           \/ /\ Faulty
              /\ drv' = [drv EXCEPT ![p] = RemoteFailed([d EXCEPT !.reply = "error"])]
    /\ UNCHANGED <<env, fmt, args, sentences, progressFile, outputFile>>

\* lines 128-132 with a limit on the number of polls
AfterPollLimited(d, st) ==
    IF st = "COMPLETED" THEN [d EXCEPT !.pc = "fetch"]
    ELSE IF st \in {"FAILED", "CANCELLED"} \/ d.polls >= MaxPolls THEN RemoteFailed(d)
    ELSE d

\* lines 130-131 with only CANCELLED tested: a FAILED job is polled again
AfterPollFailedPending(d, st) ==
    IF st = "COMPLETED" THEN [d EXCEPT !.pc = "fetch"]
    ELSE IF st = "CANCELLED" THEN RemoteFailed(d)
    ELSE d

\* lines 128-132: what the loop does with a polled status
AfterPoll(d, st) ==
    IF st = "COMPLETED" THEN [d EXCEPT !.pc = "fetch"]
    ELSE IF st \in {"FAILED", "CANCELLED"} THEN RemoteFailed(d)
    ELSE d      \* time.sleep(poll_interval), then the next poll

\* lines 120-132: one status poll; a transport error raises
Poll(p) ==
    /\ drv[p].pc = "poll"
    /\ LET d == [drv[p] EXCEPT !.calls = @ \cup {"poll"},
                               !.polls = Min(@ + 1, MaxPolls)]
       IN  \/ \E st \in Statuses :
                drv' = [drv EXCEPT ![p] =
                          AfterPoll([d EXCEPT !.state = st, !.reply = "ok"], st)]
           \/ /\ Faulty
              /\ drv' = [drv EXCEPT ![p] = RemoteFailed([d EXCEPT !.reply = "error"])]
    /\ UNCHANGED <<env, fmt, args, sentences, progressFile, outputFile>>

\* line 135 as: if "error" in result
ResultErrorPresent(r) == r.error # "absent"

\* line 135: if result.get("error")
ResultError(r) == r.error = "truthy"

\* lines 135-137 and 199: raise on an error, else strip the output and format it
AfterFetch(d, r) ==
    IF ResultError(r) THEN RemoteFailed(d)           \* RuntimeError
    ELSE IF ~r.has_output THEN RemoteFailed(d)       \* KeyError: 'output'
    ELSE [d EXCEPT !.raw = Strip(r.output),
                   !.formatted = format_output(Strip(r.output)),
                   !.pc = "append"]

\* lines 134-137: fetch the result; a transport error raises
Fetch(p) ==
    /\ drv[p].pc = "fetch"
    /\ LET d == [drv[p] EXCEPT !.calls = @ \cup {"fetch"}, !.fetched = TRUE]
       IN  \/ \E r \in Results :
                drv' = [drv EXCEPT ![p] =
                          AfterFetch([d EXCEPT !.result = r, !.reply = "ok"], r)]
           \/ /\ Faulty
              /\ drv' = [drv EXCEPT ![p] = RemoteFailed([d EXCEPT !.reply = "error"])]
    /\ UNCHANGED <<env, fmt, args, sentences, progressFile, outputFile>>

\* ------------------------------------------------------------- the files
\* line 201: the text written for a batch
Written(formatted) == formatted \o <<LF>>

\* the number of output records in a text written to the output file: its
\* lines that are not blank
RecordLines(text) ==
    Cardinality({k \in 1..Len(SplitLines(text)) : Strip(SplitLines(text)[k]) # <<>>})

\* lines 200-201: append the batch's output; a failed write leaves the file
\* as it was or with the text cut short, and raises
AppendOutput(p) ==
    /\ drv[p].pc = "append"
    /\ \/ /\ outputFile' = outputFile \o Written(drv[p].formatted)
          /\ drv' = [drv EXCEPT ![p] =
                        [@ EXCEPT !.pc = "save_open",
                                  !.appended = Append(@, batch_idx(drv[p])),
                                  !.records = Append(@,
                                      RecordLines(Written(drv[p].formatted)))]]
       \/ /\ Faulty
          /\ \E k \in {0, Len(drv[p].formatted)} :
                outputFile' = outputFile \o SubSeq(Written(drv[p].formatted), 1, k)
          /\ drv' = [drv EXCEPT ![p] = StorageFailed(@, "append")]
    /\ UNCHANGED <<env, fmt, args, sentences, progressFile>>

\* line 202 with the loop counter of enumerate(to_do, 1) added instead
MarkedEnum(d) == [d EXCEPT !.done = @ \cup {IntElem(d.pos)}]

\* line 202: done.add(batch_idx)
Marked(d) == [d EXCEPT !.done = @ \cup {IntElem(batch_idx(d))}]

\* lines 202 and 87: mark the batch, then open the progress file for writing,
\* which empties it; a failed open leaves it as it was and raises
SaveOpen(p) ==
    /\ drv[p].pc = "save_open"
    /\ \/ /\ progressFile' = Corrupt
          /\ drv' = [drv EXCEPT ![p] =
                        [Marked(@) EXCEPT !.pc = "save_write", !.wrote = TRUE]]
       \/ /\ Faulty
          /\ progressFile' = progressFile
          /\ drv' = [drv EXCEPT ![p] = StorageFailed(Marked(@), "save")]
    /\ UNCHANGED <<env, fmt, args, sentences, outputFile>>

\* line 204: lines = formatted.count("\n") + 1
LineCount(formatted) == CountLF(formatted) + 1

\* lines 88 and 204-205: sorted(done), json.dump and close; a failure leaves
\* the emptied or cut-short file and raises
SaveWrite(p) ==
    /\ drv[p].pc = "save_write"
    /\ \/ /\ ~SortedRaises(drv[p].done)
          /\ progressFile' = SavedFile(drv[p].done)
          /\ drv' = [drv EXCEPT ![p] =
                        EndBatch(@, TRUE, LineCount(@.formatted), "none")]
       \/ /\ Faulty \/ SortedRaises(drv[p].done)
          /\ progressFile' = progressFile
          /\ drv' = [drv EXCEPT ![p] = StorageFailed(@, "save")]
    /\ UNCHANGED <<env, fmt, args, sentences, outputFile>>

\* lines 209-213: the summary
Remaining(d) == Len(d.pending) - Len(d.to_do)

Summary(p) ==
    /\ drv[p].pc = "summary"
    /\ drv' = [drv EXCEPT ![p] =
            [@ EXCEPT !.remaining = Remaining(drv[p]), !.pc = "done",
                      !.state = "None", !.polls = 0, !.reply = "none",
                      !.fetched = FALSE, !.result = NoResult]]
    /\ UNCHANGED <<env, fmt, args, sentences, progressFile, outputFile>>

\* the process is terminated from outside
Kill(p) ==
    /\ drv[p].pc \notin Stopped
    /\ drv' = [drv EXCEPT ![p].pc = "killed"]
    /\ UNCHANGED <<env, fmt, args, sentences, progressFile, outputFile>>

\* the steps the process takes by itself
Run(p) ==
    \/ Startup(p)
    \/ DryRun(p)
    \/ SelectToDo(p)
    \/ Submit(p)
    \/ Poll(p)
    \/ Fetch(p)
    \/ AppendOutput(p)
    \/ SaveOpen(p)
    \/ SaveWrite(p)
    \/ Summary(p)

Step(p) ==
    \/ Run(p)
    \/ Faulty /\ Kill(p)

Next == \E p \in Procs : Step(p)

Spec == Init /\ [][Next]_vars

\* Two instances of the script started on the same corpus, progress file and
\* output file, with the same arguments and a credential, in a quiet
\* environment; nothing in the code makes one wait for or look at the other.
TwoInit ==
    /\ args \in [n : 0..MaxN, batch_size : {1}, has_key : {TRUE}]
    /\ sentences \in {[k \in 1..m |-> k] : m \in 1..MaxTwoSentences}
    /\ progressFile \in {Absent, SavedFile({IntElem(0)})}
    /\ outputFile = <<>>
    /\ env = "quiet"
    /\ fmt = FmtIdle
    /\ drv = [p \in Procs |-> InitDrv]

TwoNext == \E p \in Procs : Run(p)

TwoSpec == TwoInit /\ [][TwoNext]_vars

\* The process is sequential and nothing in it waits for anything but the
\* return of a call (urlopen has a timeout of 30 s, l.101; sleep returns):
\* as long as it has not stopped it takes its next step.
\* The runs that get past loading: a credential, n >= 0, a batch size >= 1
\* and a progress file that loads.
LiveInit ==
    /\ args \in [n : 0..MaxN, batch_size : 1..MaxBatchSize, has_key : {TRUE}]
    /\ sentences \in {[k \in 1..m |-> k] : m \in 0..MaxSentences}
    /\ progressFile \in {Absent, SavedFile({IntElem(0)})}
    /\ outputFile = <<>>
    /\ env = "any"
    /\ fmt = FmtIdle
    /\ drv = [p \in Procs |-> IF p = 1 THEN InitDrv ELSE OffDrv]

LiveSpec == LiveInit /\ [][Next]_vars /\ \A p \in Procs : WF_vars(Run(p))

TypeOK ==
    /\ args.n \in NValues
    /\ env \in {"any", "quiet"}
    /\ fmt.pc \in {"idle", "raw", "once", "twice"}
    /\ \A p \in Procs : drv[p].pc \in
         Stopped \cup {"start", "loaded", "submit", "poll", "fetch",
                       "append", "save_open", "save_write", "summary"}

\* ------------------------------------------------------------- properties
IsPrefix(s, t) == Len(s) <= Len(t) /\ SubSeq(t, 1, Len(s)) = s

\* the integers stored in the progress file
StoredElems == Range(progressFile.items)

\* C1: mark-after-append. Once a run has written the progress file, every
\* index in the file that the run did not load from it belongs to a batch
\* whose output the run has already appended to the output file; this holds
\* in every reachable state, so at every point where the process can be killed.
C1_MarkAfterAppend ==
    \A p \in Procs :
        drv[p].wrote =>
            \A e \in StoredElems :
                \/ e \in drv[p].loaded
                \/ e.t = "int" /\ e.v \in Range(drv[p].appended)

\* C1 witness: the process is killed after it saved an index of its own.
C1_Witness ==
    \E p \in Procs :
        /\ drv[p].pc = "killed"
        /\ drv[p].wrote
        /\ \E e \in StoredElems : e \notin drv[p].loaded

InRange(d, e) == e.t = "int" /\ 0 <= e.v /\ e.v < Len(d.batches)

\* driver p has loaded the corpus and the progress and split the batches
Loaded(p) == drv[p].ready

\* a run started with a positive batch size and a positive batch limit
UsualArgs == args.batch_size >= 1 /\ args.n >= 1

\* C2 as claimed: the progress state of a run holds only indices of
\* [0, batch_count).
C2_ProgressInRange ==
    \A p \in Procs :
        (Loaded(p) /\ UsualArgs) => \A e \in drv[p].done : InRange(drv[p], e)

\* C2 as amended: every index the run adds to the progress state is in
\* [0, batch_count); what load_progress returned is kept as it is, so the
\* progress state and every saved set hold only loaded elements and indices
\* of [0, batch_count).
C2_AddedInRange ==
    \A p \in Procs :
        /\ Loaded(p) =>
              \A e \in drv[p].done : e \in drv[p].loaded \/ InRange(drv[p], e)
        /\ drv[p].wrote =>
              \A e \in StoredElems : e \in drv[p].loaded \/ InRange(drv[p], e)

\* C2 witness: a run that loaded an index outside the range saved an index
\* of its own next to it.
C2_Witness ==
    \E p \in Procs :
        /\ drv[p].wrote
        /\ \E e \in StoredElems : ~InRange(drv[p], e)
        /\ \E e \in StoredElems : e \notin drv[p].loaded

EndsOnce(line) ==
    /\ EndsWith(line, StopMarker)
    /\ ~EndsWith(line, StopMarker \o StopMarker)

AppendNeverFailed == \A p \in Procs :
    \A k \in 1..Len(drv[p].log) : drv[p].log[k].cause # "append"

\* C3: as long as no write to the output file failed, every line of what the
\* driver appended ends with the stop marker, and with one marker only.
C3_StopMarkedOnce ==
    (AppendNeverFailed /\ UsualArgs) =>
        \A k \in 1..Len(SplitLines(outputFile)) : EndsOnce(SplitLines(outputFile)[k])

\* the pending indices as the claim states them: the indices of the batches
\* that are not in the loaded progress, ascending
PendingOfLoaded(d) ==
    SortedInts({i \in 0..(Len(d.batches) - 1) : IntElem(i) \notin d.loaded})

FirstN(s, k) == SubSeq(s, 1, Min(k, Len(s)))

\* C4: resumable selection. For n >= 1 the jobs submitted so far are a prefix
\* of the first min(n, len(pending)) pending indices, and a run that reaches
\* its end has submitted exactly those, each once and ascending; no index of
\* the loaded progress is ever submitted.
C4_ResumableSelection ==
    \A p \in Procs :
        (Loaded(p) /\ args.n >= 1) =>
            LET d == drv[p]
                expected == FirstN(PendingOfLoaded(d), args.n)
            IN  /\ IsPrefix(d.attempted, expected)
                /\ d.pc = "done" => d.attempted = expected
                /\ \A k \in 1..Len(d.attempted) :
                      IntElem(d.attempted[k]) \notin d.loaded

\* C4 witness: a finished run that loaded a non-empty progress, skipped a
\* done index lying between two pending ones and was cut short by n.
C4_Witness ==
    \E p \in Procs :
        /\ drv[p].pc = "done"
        /\ args.n >= 1
        /\ Len(drv[p].attempted) = args.n
        /\ Len(drv[p].pending) > args.n
        /\ \E e \in drv[p].loaded :
              e.t = "int" /\ drv[p].attempted[1] < e.v /\ e.v < Len(drv[p].batches)

\* C5: per-batch failure isolation. A batch whose remote call failed has no
\* output appended and its index is not in the progress state; every batch
\* reported OK is appended and marked; and a run that reaches its end has
\* attempted every selected batch, whatever failed before.
C5_FailureIsolation ==
    \A p \in Procs :
        LET d == drv[p]
        IN  /\ \A k \in 1..Len(d.log) :
                  /\ d.log[k].cause = "remote" =>
                        /\ d.log[k].idx \notin Range(d.appended)
                        /\ IntElem(d.log[k].idx) \notin d.done
                  /\ d.log[k].ok =>
                        /\ d.log[k].idx \in Range(d.appended)
                        /\ IntElem(d.log[k].idx) \in d.done
            /\ (d.pc = "done" /\ d.to_do # <<>>) =>
                  /\ d.attempted = d.to_do
                  /\ Len(d.log) = Len(d.to_do)

\* C5 witness: a finished run in which a remote failure was followed by a
\* batch that was appended and saved.
C5_Witness ==
    \E p \in Procs :
        /\ drv[p].pc = "done"
        /\ \E j, k \in 1..Len(drv[p].log) :
              /\ j < k
              /\ drv[p].log[j].cause = "remote"
              /\ drv[p].log[k].ok
              /\ IntElem(drv[p].log[k].idx) \in StoredElems
              /\ IntElem(drv[p].log[j].idx) \notin StoredElems

StorageCauses == {"append", "save"}

\* C6: storage errors are fatal. Once the append or the save of a batch has
\* failed, no later batch is attempted and the run does not end as a run
\* that completed.
C6_StorageErrorsFatal ==
    \A p \in Procs :
        UsualArgs =>
            \A k \in 1..Len(drv[p].log) :
                drv[p].log[k].cause \in StorageCauses =>
                    /\ Len(drv[p].attempted) <= k
                    /\ drv[p].pc # "done"

\* C7: durability ordering. When a run has ended, the index of a batch whose
\* output was appended and whose progress save then failed is not in the
\* progress file.
C7_DurabilityOrdering ==
    \A p \in Procs :
        (drv[p].pc = "done" /\ UsualArgs) =>
            \A k \in 1..Len(drv[p].log) :
                drv[p].log[k].cause = "save" =>
                    IntElem(drv[p].log[k].idx) \notin StoredElems

Failures(d) == Len({k \in 1..Len(d.log) : ~d.log[k].ok})

\* C8: poll protocol. The result is fetched only from a job whose last poll
\* returned COMPLETED; a poll that returns FAILED or CANCELLED ends the call
\* with a failure and without a fetch; a poll that returns any other status,
\* a missing one included, leaves the call polling, however often it happens.
C8_PollProtocol ==
    [][\A p \in Procs :
         LET d == drv[p]
             e == drv'[p]
         IN  /\ (e.fetched /\ ~d.fetched) =>
                    d.pc = "fetch" /\ d.state = "COMPLETED"
             /\ (e.pc = "fetch" /\ d.pc # "fetch") =>
                    d.pc = "poll" /\ e.reply = "ok" /\ e.state = "COMPLETED"
             /\ (d.pc = "poll" /\ e.reply = "ok" /\ e.state \in {"FAILED", "CANCELLED"}) =>
                    /\ e.pc \in {"submit", "summary"}
                    /\ e.log = Append(d.log, [idx |-> batch_idx(d), ok |-> FALSE,
                                              lines |-> 0, cause |-> "remote"])
                    /\ ~e.fetched
             /\ (d.pc = "poll" /\ e.reply = "ok" /\ e.state \notin Terminal
                    /\ e.pc # "killed") =>
                    e.pc = "poll" /\ e.log = d.log
      ]_vars

\* C8 witness: a job polled at least MaxPolls times, the last poll but one
\* without a terminal status, is about to have its result fetched.
C8_Witness ==
    \E p \in Procs :
        /\ drv[p].pc = "fetch"
        /\ drv[p].polls = MaxPolls
        /\ drv[p].state = "COMPLETED"
        /\ ~drv[p].fetched

\* the fetch step of driver p received the payload e.result
Fetched(d, e) == d.pc = "fetch" /\ e.result # NoResult

FailedRemotely(d, e) ==
    /\ e.pc \in {"submit", "summary"}
    /\ e.raw = <<>>
    /\ e.log = Append(d.log, [idx |-> batch_idx(d), ok |-> FALSE,
                              lines |-> 0, cause |-> "remote"])

ReturnedStripped(d, e) ==
    /\ e.pc = "append"
    /\ e.raw = Strip(e.result.output)
    /\ e.log = d.log

\* C9 as claimed: a result with an error field, whatever its value, makes
\* generate_one fail; a result without one and with a text returns the text
\* stripped.
C9_AnyErrorFieldFails ==
    [][\A p \in Procs :
         (Fetched(drv[p], drv'[p]) /\ UsualArgs) =>
            /\ drv'[p].result.error # "absent" => FailedRemotely(drv[p], drv'[p])
            /\ (drv'[p].result.error = "absent" /\ drv'[p].result.has_output) =>
                  ReturnedStripped(drv[p], drv'[p])
      ]_vars

\* C9 as amended: a result whose error field has a true value makes
\* generate_one fail and return no text; a result whose error field is
\* absent or has a false value (null, "", 0) returns the output stripped,
\* and fails when the result has no output.
C9_TrueErrorFieldFails ==
    [][\A p \in Procs :
         Fetched(drv[p], drv'[p]) =>
            IF drv'[p].result.error = "truthy" \/ ~drv'[p].result.has_output
            THEN FailedRemotely(drv[p], drv'[p])
            ELSE ReturnedStripped(drv[p], drv'[p])
      ]_vars

\* C9 witness: a result with a false error field was returned, stripped of
\* the whitespace around it.
C9_Witness ==
    \E p \in Procs :
        /\ drv[p].pc = "append"
        /\ drv[p].result.error = "falsy"
        /\ drv[p].raw = Strip(drv[p].result.output)
        /\ drv[p].raw # drv[p].result.output
        /\ drv[p].raw # <<>>

RECURSIVE Flatten(_)
Flatten(ss) == IF ss = <<>> THEN <<>> ELSE Head(ss) \o Flatten(Tail(ss))

CeilDiv(a, b) == (a + b - 1) \div b

\* C10: partitioning. For a batch size >= 1, batch i is the sentences
\* [i*size, min((i+1)*size, len)), no batch is empty, the batches laid end
\* to end are the sentence sequence (every sentence in exactly one batch, in
\* order), and there are ceil(len/size) of them.
C10_Partitioning ==
    \A p \in Procs :
        (Loaded(p) /\ args.batch_size >= 1) =>
            LET bs == drv[p].batches
                size == args.batch_size
                len == Len(sentences)
            IN  /\ Len(bs) = CeilDiv(len, size)
                /\ \A i \in 0..(Len(bs) - 1) :
                      /\ bs[i + 1] # <<>>
                      /\ bs[i + 1] =
                            [j \in 1..(Min((i + 1) * size, len) - i * size) |->
                                sentences[i * size + j]]
                /\ Flatten(bs) = sentences

\* C10 witness: several batches, the last one shorter than the batch size.
C10_Witness ==
    \E p \in Procs :
        /\ Loaded(p)
        /\ args.batch_size >= 2
        /\ Len(drv[p].batches) >= 2
        /\ Len(drv[p].batches[Len(drv[p].batches)]) < args.batch_size

\* C11: invalid batch size rejected. With a batch size of zero or below a
\* generating run (n >= 1) never ends normally, calls no remote operation and writes no file.
C11_InvalidBatchSizeRejected ==
    \A p \in Procs :
        (args.batch_size <= 0 /\ args.n >= 1 /\ drv[p].pc # "off") =>
            /\ drv[p].pc # "done"
            /\ drv[p].calls = {}
            /\ ~drv[p].wrote
            /\ outputFile = <<>>

\* the first load of a run has been done and the progress file is still the one
\* it read
AfterLoad(p) ==
    /\ drv[p].ready \/ drv[p].pc = "crashed"
    /\ args.batch_size # 0
    /\ ~drv[p].wrote

\* a decoded store that is not a non-empty list starting with an integer
NotCurrentFormat(file) ==
    /\ file.kind \notin {"absent", "corrupt"}
    /\ ~(file.kind = "list" /\ file.items # <<>> /\ file.items[1].t = "int")

\* the stores load_progress discards: falsy values (empty list, empty object,
\* null, 0, false, empty string), and lists and strings whose first element is
\* not an integer
Discarded(file) ==
    /\ NotCurrentFormat(file)
    /\ ~(file.kind \in {"dict", "number"} /\ file.truthy)

Generating == {"submit", "poll", "fetch", "append", "save_open", "save_write", "summary"}

\* C13: a dry run is read-only. With n = 0 no step of the run submits, polls
\* or fetches, no step changes the output file or the progress file, and the
\* run never stops for a missing credential nor enters the generation loop.
C13_DryRunReadOnly ==
    [][args.n = 0 =>
          /\ outputFile' = outputFile
          /\ progressFile' = progressFile
          /\ \A p \in Procs :
                /\ drv'[p].calls = {}
                /\ ~drv'[p].wrote
                /\ drv'[p].pc \notin Generating \cup {"exit1"}]_vars

\* C13 witness: a dry run that ended normally with batches pending, a
\* non-empty progress file and no credential.
C13_Witness ==
    \E p \in Procs :
        /\ args.n = 0
        /\ ~args.has_key
        /\ drv[p].pc = "done"
        /\ drv[p].pending # <<>>
        /\ drv[p].loaded # {}

\* C15: a missing credential is fatal. With n # 0 and no credential no step
\* of the run calls the service or changes a file, and the run never enters the
\* generation loop nor ends normally: it stops at the credential test (exit
\* code 1) unless loading already failed.
C15_MissingCredentialFatal ==
    [][(args.n # 0 /\ ~args.has_key) =>
          /\ outputFile' = outputFile
          /\ progressFile' = progressFile
          /\ \A p \in Procs :
                /\ drv'[p].calls = {}
                /\ ~drv'[p].wrote
                /\ drv'[p].pc \notin Generating \cup {"done"}
                /\ (drv[p].pc = "loaded" /\ drv'[p].pc # "killed") =>
                      drv'[p].pc = "exit1"]_vars

\* C15 witness: a run with batches pending stopped with exit code 1 for lack
\* of a credential.
C15_Witness ==
    \E p \in Procs :
        /\ args.n >= 1
        /\ ~args.has_key
        /\ drv[p].pc = "exit1"
        /\ drv[p].pending # <<>>

\* ------------------------------------------------------- format_output alone
\* The characters of a raw text by what strip, splitlines and endswith make
\* of them: an ordinary character, a blank, a line break, the stop marker.
Alphabet == {"a", SP, LF, STOP}

Texts == UNION {[1..k -> Alphabet] : k \in 0..MaxTextLen}

\* format_output is called on an arbitrary raw text; no driver runs
FmtInit ==
    /\ args = [n |-> 0, batch_size |-> 1, has_key |-> FALSE]
    /\ sentences = <<>>
    /\ progressFile = Absent
    /\ outputFile = <<>>
    /\ drv = [p \in Procs |-> OffDrv]
    /\ env = "quiet"
    /\ \E x \in Texts : fmt = [pc |-> "raw", text |-> x, once |-> <<>>, twice |-> <<>>]

\* format_output(x)
FormatOnce ==
    /\ fmt.pc = "raw"
    /\ fmt' = [fmt EXCEPT !.pc = "once", !.once = format_output(fmt.text)]
    /\ UNCHANGED <<args, sentences, progressFile, outputFile, drv, env>>

\* format_output(format_output(x))
FormatTwice ==
    /\ fmt.pc = "once"
    /\ fmt' = [fmt EXCEPT !.pc = "twice", !.twice = format_output(fmt.once)]
    /\ UNCHANGED <<args, sentences, progressFile, outputFile, drv, env>>

FmtNext == FormatOnce \/ FormatTwice

FmtSpec == FmtInit /\ [][FmtNext]_vars

\* str.split("\n"): the pieces between line breaks, empty ones included
RECURSIVE SplitLF(_)
SplitLF(s) ==
    LET k == FirstLF(s)
    IN  IF k = 0 THEN <<s>>
        ELSE <<SubSeq(s, 1, k - 1)>> \o SplitLF(SubSeq(s, k + 1, Len(s)))

\* a text made of trimmed, non-empty, stop-marked lines joined by newlines
\* (the empty text is the join of no line)
IsFormatted(text) ==
    \/ text = <<>>
    \/ \A k \in 1..Len(SplitLF(text)) :
          LET l == SplitLF(text)[k]
          IN  /\ l # <<>>
              /\ l[1] \notin Whitespace
              /\ l[Len(l)] = STOP

\* C14: formatter idempotence. For every raw text x,
\* format_output(format_output(x)) = format_output(x); the result of
\* format_output is made of trimmed, non-empty, stop-marked lines, and every
\* text made of such lines is returned unchanged.
C14_FormatIdempotent ==
    /\ fmt.pc = "twice" => fmt.twice = fmt.once
    /\ fmt.pc \in {"once", "twice"} =>
          /\ IsFormatted(fmt.once)
          /\ IsFormatted(fmt.text) => fmt.once = fmt.text

\* C14 witness: a text of two lines that the first pass changed, formatted
\* twice.
C14_Witness ==
    /\ fmt.pc = "twice"
    /\ fmt.once # fmt.text
    /\ Len(SplitLF(fmt.once)) = 2

\* C14 witness of the fixed point: a formatted text of two lines went through.
C14_FixedPointWitness ==
    /\ fmt.pc = "twice"
    /\ IsFormatted(fmt.text)
    /\ Len(SplitLF(fmt.text)) = 2
    /\ fmt.once = fmt.text

\* the batch indices of the run that are not in its progress state
NotDone(d) == {i \in 0..(Len(d.batches) - 1) : IntElem(i) \notin d.done}

\* C16: the run summary reports the remaining pending count. When a
\* generating run ends, the number it reports is the number of batch indices
\* not in the progress state at that moment, failed batches included, so that
\* completion (a count of zero) is reported only when no batch is left.
C16_RemainingReported ==
    \A p \in Procs :
        (UsualArgs /\ drv[p].pc = "done") =>
            drv[p].remaining = Cardinality(NotDone(drv[p]))

\* the position in appended of the batch a report line is about
AppendedAt(d, idx) == {j \in 1..Len(d.appended) : d.appended[j] = idx}

\* C17: the OK report carries the output line count. Every OK line of the
\* report gives the number of output record lines that were appended to the
\* output file for its batch, also when the formatted result is empty.
C17_LineCountReported ==
    \A p \in Procs :
        UsualArgs =>
            \A k \in 1..Len(drv[p].log) :
                drv[p].log[k].ok =>
                    \E j \in AppendedAt(drv[p], drv[p].log[k].idx) :
                        drv[p].log[k].lines = drv[p].records[j]

\* the job a driver is polling has reported COMPLETED, FAILED or CANCELLED
JobReported(p) == drv[p].pc = "poll" => drv[p].state \in Terminal

\* the run has ended, and if it got to its loop it has attempted every
\* selected batch
Ended(p) ==
    /\ drv[p].pc \in Stopped
    /\ (drv[p].pc = "done" /\ args.n # 0) => drv[p].attempted = drv[p].to_do

\* C18: termination. Every call returns (LiveSpec); if moreover no job keeps
\* reporting non-terminal statuses for ever, the run eventually ends, having
\* attempted every selected batch.
C18_Termination ==
    (\A p \in Procs : []<>JobReported(p)) => <>(\A p \in Procs : Ended(p))

\* C18 witness: the loop is over after two batches, the last job having been
\* polled several times before it ended.
C18_Witness ==
    \E p \in Procs :
        /\ drv[p].pc = "summary"
        /\ Len(drv[p].to_do) >= 2
        /\ drv[p].attempted = drv[p].to_do
        /\ drv[p].polls >= 2

\* the indices a driver appended itself
OwnAppended(d) == {IntElem(d.appended[k]) : k \in 1..Len(d.appended)}

\* C19: no guard against concurrent drivers. With two instances on the same
\* files each one selects the batches missing from the progress it loaded at
\* its own start, whatever the other has saved since, and every save replaces
\* the stored list by exactly what the saving instance loaded and appended
\* itself.
C19_NoGuard ==
    [][\A p \in Procs :
          /\ drv'[p].ready =>
                /\ drv'[p].pending = PendingOfLoaded(drv'[p])
                /\ IsPrefix(drv'[p].attempted, drv'[p].pending)
          /\ (drv[p].pc = "save_write" /\ drv'[p].pc # "save_write") =>
                /\ progressFile'.kind = "list"
                /\ StoredElems' = drv'[p].loaded \cup OwnAppended(drv'[p])]_vars

\* C19 witness: both instances appended the output of the same batch, and
\* the progress file, last written by one of them, lacks an index whose save
\* the other had completed and reported.
C19_Witness ==
    \E p, q \in Procs :
        /\ p # q
        /\ \E i \in Range(drv[p].appended) : i \in Range(drv[q].appended)
        /\ drv[p].wrote
        /\ progressFile.kind = "list"
        /\ \E k \in 1..Len(drv[q].log) :
              /\ drv[q].log[k].ok
              /\ IntElem(drv[q].log[k].idx) \notin StoredElems

\* the indices whose save a run has completed and reported
SavedOk(d) == {IntElem(d.log[k].idx) : k \in {j \in 1..Len(d.log) : d.log[j].ok}}

\* C20: under a single driver the persisted progress only grows. When the
\* store held a list of integers at load, then between two saves, also after
\* failed batches and failed saves, the store holds every index it held at load
\* and every index saved since, and nothing but those and the indices of
\* batches this run appended.
C20_ProgressOnlyGrows ==
    \A p \in Procs :
        ( /\ UsualArgs
          /\ drv[p].ready
          /\ drv[p].loaded # {}
          /\ \A e \in drv[p].loaded : e.t = "int"
          /\ drv[p].pc \notin {"save_write", "killed"} ) =>
            /\ drv[p].loaded \subseteq StoredElems
            /\ SavedOk(drv[p]) \subseteq StoredElems
            /\ StoredElems \subseteq drv[p].loaded \cup OwnAppended(drv[p])

====
